---- MODULE Spec2Model ----
(***************************************************************************)
(* The try-runtime `on-runtime-upgrade` command                            *)
(* (utils/frame/try-runtime/cli/src/commands/on_runtime_upgrade.rs).       *)
(*                                                                         *)
(* One run of on_runtime_upgrade is modelled as a sequential process whose *)
(* position is pc.  Calls into collaborators (the state builder, the       *)
(* executor, the live endpoint) are split into a start step and a return   *)
(* step; the value a collaborator returns is chosen nondeterministically   *)
(* from small sets.                                                        *)
(***************************************************************************)
EXTENDS Integers, Sequences, FiniteSets, TLC

\* ------------------------------------------------------------------ bounds
\* Storage values (and code blobs) are 1..MaxValue.
MaxValue == 2
\* Distinct error values a collaborator may fail with (kinds of failure).
MaxErr == 2
\* A truncated return value misses 1..MaxCut bytes at its end.
MaxCut == 1
\* A return value with extra data has 1..MaxTrailing bytes behind the records.
MaxTrailing == 1

\* --------------------------------------------------------- data and inputs
None == <<"None">>
NoValue == 0
Values == 1..MaxValue

\* sp_core::storage::well_known_keys::CODE and one more key of the state.
CODE == ":code"
OtherKey == ":other"
Keys == {CODE, OtherKey}

\* A key/value state: every key has a value or NoValue (absent).
Overlays == [Keys -> Values \cup {NoValue}]

Errs == {<<"error", ToString(e)>> : e \in 1..MaxErr}

Ok(v) == [tag |-> "Ok", value |-> v]
Err(e) == [tag |-> "Err", error |-> e]
Panic == [tag |-> "Panic"]
\* The run has not returned.
Running == [tag |-> "Running"]
\* No stage has failed.
NoError == [stage |-> "None", error |-> <<>>]

Max(a, b) == IF a >= b THEN a ELSE b

\* --------------------------------------------------- collaborators (crate)
\* State::live_uri: Some(uri) for the Live variant only.
live_uri(st) == IF st = "Live" THEN <<"uri">> ELSE None

\* extract_code: the code key and the code of the chain spec, or an error
\* when the chain spec holds no code.
extract_code(spec) ==
  IF spec = NoValue THEN Err(<<"code key does not exist">>) ELSE Ok(<<CODE, spec>>)

\* Builder::inject_hashed_key_value(..).build(): the fetched state with every
\* injected pair written over it, in order.
RECURSIVE inject_hashed_key_value(_, _)
inject_hashed_key_value(kv, pairs) ==
  IF pairs = <<>> THEN kv
  ELSE inject_hashed_key_value([kv EXCEPT ![pairs[1][1]] = pairs[1][2]], Tail(pairs))

\* local_spec: name, version and a third component of the runtime whose code
\* is stored under the code key of the externalities.
RuntimeVersionOf(code) ==
  <<IF code % 3 = 0 THEN "other" ELSE "demo", 4 + code, code % 2>>

local_spec(e) == RuntimeVersionOf(e[CODE])

\* What the live endpoint may answer: a runtime version, or nothing when the
\* query fails.
QueryFailed == <<"query failed">>
LiveVersions == {"demo", "other"} \X {5, 6}
LiveAnswers == LiveVersions \cup {QueryFailed}

\* ensure_matching_spec: queries the live endpoint and compares name and
\* version; a mismatch panics unless relaxed, in which case it is logged as a
\* warning.  A failed query halts the run as well.
ensure_matching_spec(expected_spec_name, expected_spec_version, live, relaxed) ==
  IF live = QueryFailed THEN "panic"
  ELSE IF expected_spec_name = live[1] /\ expected_spec_version = live[2] THEN "match"
  ELSE IF relaxed THEN "warn"
  ELSE "panic"

\* ------------------------------------------------ weights and their codec
\* sp_weights::Weight: ref_time and proof_size, two u64.
Weight(r, p) == [ref_time |-> r, proof_size |-> p]

\* The weights the entry point may report.
Weights == {Weight(100, 50), Weight(1000, 1000), Weight(0, 0), Weight(1, 3)}

\* Bytes of one encoded u64 field of a record.
U64Bytes == 8

RECURSIVE EncodeLE(_, _)
EncodeLE(n, len) ==
  IF len = 0 THEN <<>> ELSE <<n % 256>> \o EncodeLE(n \div 256, len - 1)

RECURSIVE DecodeLE(_)
DecodeLE(bytes) ==
  IF bytes = <<>> THEN 0 ELSE bytes[1] + 256 * DecodeLE(Tail(bytes))

EncodeWeight(w) == EncodeLE(w.ref_time, U64Bytes) \o EncodeLE(w.proof_size, U64Bytes)

\* (Weight, Weight)::encode: the first record, then the second.
EncodeWeights(w, tw) == EncodeWeight(w) \o EncodeWeight(tw)

\* Decoding reads from the front of the input and hands back what is left.
DecodeU64(input) ==
  IF Len(input) < U64Bytes THEN Err(<<"Not enough data to fill buffer">>)
  ELSE [tag |-> "Ok",
        value |-> DecodeLE(SubSeq(input, 1, U64Bytes)),
        rest |-> SubSeq(input, U64Bytes + 1, Len(input))]

DecodeWeight(input) ==
  LET r == DecodeU64(input) IN
  IF r.tag = "Err" THEN r
  ELSE LET p == DecodeU64(r.rest) IN
       IF p.tag = "Err" THEN p
       ELSE [tag |-> "Ok", value |-> Weight(r.value, p.value), rest |-> p.rest]

\* <(Weight, Weight) as Decode>::decode(&mut &*encoded_result): the two records
\* are read one after the other; the input left behind them is not looked at.
DecodeWeights(encoded) ==
  LET w == DecodeWeight(encoded) IN
  IF w.tag = "Err" THEN Err(w.error)
  ELSE LET tw == DecodeWeight(w.rest) IN
       IF tw.tag = "Err" THEN Err(tw.error)
       ELSE Ok(<<w.value, tw.value>>)

\* .map_err(|e| format!("failed to decode weight: {:?}", e))
DecodeErrorMessage(e) == <<"failed to decode weight: ">> \o e

\* Return values of the entry point: well-formed ones, ones cut short and ones
\* with bytes behind the second record.
TrailingBytes == {0, 255}
WellFormedReturns == {EncodeWeights(w, tw) : w \in Weights, tw \in Weights}
CutReturns ==
  {SubSeq(r, 1, Len(r) - k) : r \in WellFormedReturns, k \in 1..MaxCut} \cup {<<>>}
LongReturns ==
  UNION {{r \o t : t \in [1..n -> TrailingBytes]} :
           r \in WellFormedReturns, n \in 1..MaxTrailing}
RawReturns == WellFormedReturns \cup CutReturns \cup LongReturns

\* The decode of every return value the entry point may produce.
Decoding == [encoded \in RawReturns |-> DecodeWeights(encoded)]

\* A floor written as total + 1.
DenominatorFloor_PlusOne(total) == total + 1

\* total.max(1)
DenominatorFloor(total) == Max(total, 1)

\* (consumed as f64 / total.max(1) as f64) * 100.0 printed with {:.2}: the
\* percentage in hundredths, rounded to the nearest.
Percent(consumed, total) ==
  LET d == DenominatorFloor(total) IN (2 * consumed * 10000 + d) \div (2 * d)

\* ------------------------------------------------------------------ state
VARIABLES
  state,                \* command.state: "Live" or "Snapshot"
  no_spec_check_panic,  \* shared.no_spec_check_panic
  chain_spec,           \* the code of config.chain_spec, or NoValue
  pc,                   \* the statement the run is at
  pending,              \* TRUE while the call at pc is outstanding
  code_pair,            \* (code_key, code) of extract_code
  base,                 \* the state the source delivered to build()
  ext,                  \* the externalities built
  expected,             \* what local_spec returned
  actual,               \* what the live endpoint reported
  encoded_result,       \* the entry point's encoded return value
  weights,              \* (weight, total_weight)
  log,                  \* records written to the log
  result,               \* what the run returned
  started,              \* the stages started so far, in order
  completed,            \* the stages that returned successfully, in order
  first_error,          \* the stage that failed and the error it produced
  calls                 \* the state_machine_call_with_proof calls made

\* The storage of the nfts pallet and what its lock operations leave behind.
VARIABLES
  Collection,           \* Collection: collection -> details (owner)
  CollectionConfigOf,   \* CollectionConfigOf: collection -> config
  ItemConfigOf,         \* ItemConfigOf: (collection, item) -> config
  CollectionRoleOf,     \* CollectionRoleOf: (collection, account) -> roles
  events,               \* the events deposited, in order
  last,                 \* the last call: operation, arguments, checks, result
  dispatched            \* the number of calls made

\* The variables of one run of on_runtime_upgrade.
run == <<state, no_spec_check_panic, chain_spec, pc, pending, code_pair, base,
         ext, expected, actual, encoded_result, weights, log, result, started,
         completed, first_error, calls>>

\* The variables of the pallet.
pallet == <<Collection, CollectionConfigOf, ItemConfigOf, CollectionRoleOf,
            events, last, dispatched>>

vars == <<run, pallet>>

\* No call has been made.
NoCall == [op |-> "None"]

\* The pallet as it is while a run of on_runtime_upgrade is looked at: empty.
PalletIdle ==
  /\ Collection = <<>>
  /\ CollectionConfigOf = <<>>
  /\ ItemConfigOf = <<>>
  /\ CollectionRoleOf = <<>>
  /\ events = <<>>
  /\ last = NoCall
  /\ dispatched = 0

config == <<state, no_spec_check_panic, chain_spec>>
data == <<code_pair, base, ext, expected, actual, encoded_result, weights>>

Init ==
  /\ state \in {"Live", "Snapshot"}
  /\ no_spec_check_panic \in BOOLEAN
  /\ chain_spec \in Values \cup {NoValue}
  /\ pc = "builder"
  /\ pending = FALSE
  /\ code_pair = None
  /\ base = None
  /\ ext = None
  /\ expected = None
  /\ actual = None
  /\ encoded_result = None
  /\ weights = None
  /\ log = <<>>
  /\ result = Running
  /\ started = <<>>
  /\ completed = <<>>
  /\ first_error = NoError
  /\ calls = <<>>
  /\ PalletIdle

\* -------------------------------------------------------------- control
\* A stage begins: a call into a collaborator is now outstanding.
Begin(stage) ==
  /\ pc = stage
  /\ ~pending
  /\ pending' = TRUE
  /\ started' = Append(started, stage)

\* A stage returned successfully; the run goes on at `next`.
Continue(stage, next) ==
  /\ pc' = next
  /\ pending' = FALSE
  /\ completed' = Append(completed, stage)
  /\ UNCHANGED <<result, first_error>>

\* A failure answered by starting the stage again.
Propagate_Retry(stage, produced, returned) ==
  /\ pc' = stage
  /\ pending' = FALSE
  /\ first_error' = [stage |-> stage, error |-> produced]
  /\ UNCHANGED <<result, completed>>

\* A failure reported as a generic error.
Propagate_Replaced(stage, produced, returned) ==
  /\ pc' = "done"
  /\ pending' = FALSE
  /\ result' = Err(<<"error">>)
  /\ first_error' = [stage |-> stage, error |-> produced]
  /\ UNCHANGED completed

\* The `?` operator on an Err: the function returns the error.
Propagate(stage, produced, returned) ==
  /\ pc' = "done"
  /\ pending' = FALSE
  /\ result' = Err(returned)
  /\ first_error' = [stage |-> stage, error |-> produced]
  /\ UNCHANGED completed

\* A panic inside a stage unwinds the run: nothing is returned.
Unwind(stage, message) ==
  /\ pc' = "done"
  /\ pending' = FALSE
  /\ result' = Panic
  /\ first_error' = [stage |-> stage, error |-> message]
  /\ UNCHANGED completed

\* The check made for every source.
AfterBuild_Always(uri) == "local_spec"

\* The check left out.
AfterBuild_Never(uri) == "state_machine_call_with_proof"

\* The live endpoint asked before the local query was made.
AfterBuild_SkipLocal(uri) ==
  IF uri # None THEN "ensure_matching_spec" ELSE "state_machine_call_with_proof"

\* if let Some(uri) = command.state.live_uri() { .. }
AfterBuild(uri) == IF uri # None THEN "local_spec" ELSE "state_machine_call_with_proof"

\* -------------------------------------------------------------- the run
\* let builder = command.state.builder::<Block>()?.state_version(..);
StateBuilder ==
  /\ pc = "builder" /\ ~pending
  /\ started' = Append(started, "builder")
  /\ \/ Continue("builder", "extract_code")
     \/ \E e \in Errs : Propagate("builder", e, e)
  /\ UNCHANGED <<pallet, config, data, log, calls>>

\* A chain spec without code answered with an empty code pair.
ExtractCode_Ignored ==
  /\ pc = "extract_code" /\ ~pending
  /\ started' = Append(started, "extract_code")
  /\ code_pair' = <<CODE, chain_spec>>
  /\ Continue("extract_code", "build")
  /\ UNCHANGED <<pallet, config, base, ext, expected, actual, encoded_result,
                 weights, log, calls>>

\* let (code_key, code) = extract_code(&config.chain_spec)?;
ExtractCode ==
  /\ pc = "extract_code" /\ ~pending
  /\ started' = Append(started, "extract_code")
  /\ LET r == extract_code(chain_spec) IN
     IF r.tag = "Ok"
       THEN /\ code_pair' = r.value
            /\ Continue("extract_code", "build")
       ELSE /\ Propagate("extract_code", r.error, r.error)
            /\ UNCHANGED code_pair
  /\ UNCHANGED <<pallet, config, base, ext, expected, actual, encoded_result,
                 weights, log, calls>>

\* The code pair not injected.
InjectedPairs_Empty(pair) == <<>>

\* The pairs handed to inject_hashed_key_value: &[(code_key, code)].
InjectedPairs(pair) == <<pair>>

\* builder.inject_hashed_key_value(&[(code_key, code)]).build() is awaited.
BuildStart ==
  /\ Begin("build")
  /\ UNCHANGED <<pallet, config, data, log, result, completed, first_error, calls, pc>>

\* .await?: the state arrived and the pairs were injected, or the build failed.
BuildReturn ==
  /\ pc = "build" /\ pending
  /\ \/ \E kv \in Overlays :
          /\ base' = kv
          /\ ext' = inject_hashed_key_value(kv, InjectedPairs(code_pair))
          /\ Continue("build", AfterBuild(live_uri(state)))
     \/ \E e \in Errs :
          /\ Propagate("build", e, e)
          /\ UNCHANGED <<base, ext>>
  /\ UNCHANGED <<pallet, config, code_pair, expected, actual, encoded_result, weights,
                 log, started, calls>>

\* local_spec::<Block, ExecDispatch>(&ext, &executor) is called.
LocalSpecStart ==
  /\ Begin("local_spec")
  /\ UNCHANGED <<pallet, config, data, log, result, completed, first_error, calls, pc>>

\* let (expected_spec_name, expected_spec_version, _) = local_spec(..);
LocalSpecReturn ==
  /\ pc = "local_spec" /\ pending
  /\ \/ /\ expected' = local_spec(ext)
        /\ Continue("local_spec", "ensure_matching_spec")
     \/ /\ Unwind("local_spec", <<"local_spec">>)
        /\ UNCHANGED expected
  /\ UNCHANGED <<pallet, config, code_pair, base, ext, actual, encoded_result, weights,
                 log, started, calls>>

\* The flag passed inverted.
SpecCheckArgs_Inverted(local, no_panic) ==
  [expected_spec_name |-> local[1],
   expected_spec_version |-> local[2],
   relaxed |-> ~no_panic]

\* The third component passed as the version.
SpecCheckArgs_Third(local, no_panic) ==
  [expected_spec_name |-> local[1],
   expected_spec_version |-> local[3],
   relaxed |-> no_panic]

\* The arguments of ensure_matching_spec taken from this function's state: the
\* first two components of local_spec's result and shared.no_spec_check_panic.
SpecCheckArgs(local, no_panic) ==
  [expected_spec_name |-> local[1],
   expected_spec_version |-> local[2],
   relaxed |-> no_panic]

\* ensure_matching_spec::<Block>(uri, name, version, no_spec_check_panic)
EnsureMatchingSpecStart ==
  /\ Begin("ensure_matching_spec")
  /\ UNCHANGED <<pallet, config, data, log, result, completed, first_error, calls, pc>>

\* .await; the live endpoint answered (or the query failed) and the check ran.
EnsureMatchingSpecReturn ==
  /\ pc = "ensure_matching_spec" /\ pending
  /\ \E live \in LiveAnswers :
       LET args == SpecCheckArgs(expected, no_spec_check_panic)
           outcome == ensure_matching_spec(args.expected_spec_name,
                                           args.expected_spec_version,
                                           live, args.relaxed)
       IN /\ actual' = live
          /\ IF outcome = "panic"
               THEN /\ Unwind("ensure_matching_spec", <<"ensure_matching_spec">>)
                    /\ UNCHANGED log
               ELSE /\ Continue("ensure_matching_spec",
                                "state_machine_call_with_proof")
                    /\ log' = IF outcome = "warn"
                                THEN Append(log, [level |-> "warn"])
                                ELSE log
  /\ UNCHANGED <<pallet, config, code_pair, base, ext, expected, encoded_result,
                 weights, started, calls>>

\* The entry point called, with its arguments.
EntryPoint == "TryRuntime_on_runtime_upgrade"

\* state_machine_call_with_proof(&ext, &executor, execution,
\*   "TryRuntime_on_runtime_upgrade", &[], Default::default()) is called.
CallStart ==
  /\ Begin("state_machine_call_with_proof")
  /\ calls' = Append(calls, [method |-> EntryPoint, data |-> <<>>, ext |-> ext])
  /\ UNCHANGED <<pallet, config, data, log, result, completed, first_error, pc>>

\* let (_, encoded_result) = ..?;
CallReturn ==
  /\ pc = "state_machine_call_with_proof" /\ pending
  /\ \/ \E raw \in RawReturns :
          /\ encoded_result' = raw
          /\ Continue("state_machine_call_with_proof", "decode")
     \/ \E e \in Errs :
          /\ Propagate("state_machine_call_with_proof", e, e)
          /\ UNCHANGED encoded_result
  /\ UNCHANGED <<pallet, config, code_pair, base, ext, expected, actual, weights, log,
                 started, calls>>

\* let (weight, total_weight) = <(Weight, Weight) as Decode>::decode(..)
\*   .map_err(|e| format!("failed to decode weight: {:?}", e))?;
DecodeResult ==
  /\ pc = "decode" /\ ~pending
  /\ started' = Append(started, "decode")
  /\ LET r == Decoding[encoded_result] IN
     IF r.tag = "Ok"
       THEN /\ weights' = r.value
            /\ Continue("decode", "report")
       ELSE /\ Propagate("decode", r.error, DecodeErrorMessage(r.error))
            /\ UNCHANGED weights
  /\ UNCHANGED <<pallet, config, code_pair, base, ext, expected, actual, encoded_result,
                 log, calls>>

\* The record of log::info!(target: LOG_TARGET, "... executed without errors ...").
Report(weight, total_weight) ==
  [level |-> "info",
   weight |-> <<weight.ref_time, weight.proof_size>>,
   total_weight |-> <<total_weight.ref_time, total_weight.proof_size>>,
   percent |-> <<Percent(weight.ref_time, total_weight.ref_time),
                 Percent(weight.proof_size, total_weight.proof_size)>>]

\* The report not written.
LogReport_Silent ==
  /\ pc = "report" /\ ~pending
  /\ started' = Append(started, "report")
  /\ Continue("report", "return")
  /\ UNCHANGED <<pallet, config, data, calls, log>>

\* log::info!(..)
LogReport ==
  /\ pc = "report" /\ ~pending
  /\ started' = Append(started, "report")
  /\ log' = Append(log, Report(weights[1], weights[2]))
  /\ Continue("report", "return")
  /\ UNCHANGED <<pallet, config, data, calls>>

\* Ok(())
ReturnOk ==
  /\ pc = "return" /\ ~pending
  /\ pc' = "done"
  /\ result' = Ok(<<>>)
  /\ UNCHANGED <<pallet, config, data, pending, log, started, completed, first_error,
                 calls>>

Next ==
  \/ StateBuilder
  \/ ExtractCode
  \/ BuildStart
  \/ BuildReturn
  \/ LocalSpecStart
  \/ LocalSpecReturn
  \/ EnsureMatchingSpecStart
  \/ EnsureMatchingSpecReturn
  \/ CallStart
  \/ CallReturn
  \/ DecodeResult
  \/ LogReport
  \/ ReturnOk

Spec == Init /\ [][Next]_vars

\* Every collaborator returns and the task is polled to completion.
FairSpec == Spec /\ WF_vars(Next)

\* ------------------------------------------------------------ properties
Range(seq) == {seq[i] : i \in DOMAIN seq}

IsPrefix(a, b) == Len(a) <= Len(b) /\ SubSeq(b, 1, Len(a)) = a

\* The resource-usage reports and the warnings written so far.
Reports == SelectSeq(log, LAMBDA r : r.level = "info")
Warnings == SelectSeq(log, LAMBDA r : r.level = "warn")

\* The stages of a run over a Live source and over a Snapshot, in source order.
LivePipeline ==
  <<"builder", "extract_code", "build", "local_spec", "ensure_matching_spec",
    "state_machine_call_with_proof", "decode", "report">>
SnapshotPipeline ==
  <<"builder", "extract_code", "build",
    "state_machine_call_with_proof", "decode", "report">>

\* The live endpoint answered and its (name, version) is not the local one.
Mismatch == actual \in LiveVersions /\ <<expected[1], expected[2]>> # actual
Matching == actual \in LiveVersions /\ <<expected[1], expected[2]>> = actual

\* C1: a Live run with the strict policy (no_spec_check_panic = FALSE) whose
\* local and live identities differ aborts in the check: the entry point was
\* never called and no report was written.
C1_StrictMismatchAborts ==
  (state = "Live" /\ ~no_spec_check_panic /\ Mismatch) =>
    /\ calls = <<>>
    /\ "state_machine_call_with_proof" \notin Range(started)
    /\ Reports = <<>>
    /\ pc = "done"
    /\ result = Panic

C1_Witness ==
  state = "Live" /\ ~no_spec_check_panic /\ Mismatch /\ pc = "done"

\* C2: the stages start in the fixed order (the identity stages only for a
\* Live source); a stage starts only when every earlier stage has completed
\* successfully, and after a failure no stage is started.
C2_StagesInOrder ==
  /\ IsPrefix(started, IF state = "Live" THEN LivePipeline ELSE SnapshotPipeline)
  /\ IsPrefix(completed, started)
  /\ Len(started) <= Len(completed) + 1
  /\ Len(started) = Len(completed) + 1 =>
       \/ pending /\ pc = started[Len(started)] /\ first_error = NoError
       \/ first_error # NoError /\ first_error.stage = started[Len(started)]
  /\ first_error # NoError =>
       /\ pc = "done" /\ ~pending
       /\ started = Append(completed, first_error.stage)

C2_Witness ==
  /\ state = "Live"
  /\ started = LivePipeline
  /\ completed = LivePipeline
  /\ result = Ok(<<>>)

\* C3: the outcome of the identity check is a function of the two (name,
\* version) pairs and the strictness flag alone: equal pairs pass under both
\* policies; different pairs abort the run when strict and, when not strict,
\* write a warning and let the run go on to the entry point.
C3_CheckOutcome ==
  /\ Matching =>
       /\ "ensure_matching_spec" \in Range(completed)
       /\ Warnings = <<>>
       /\ result # Panic
  /\ (Mismatch /\ ~no_spec_check_panic) =>
       /\ result = Panic
       /\ "ensure_matching_spec" \notin Range(completed)
  /\ (Mismatch /\ no_spec_check_panic) =>
       /\ "ensure_matching_spec" \in Range(completed)
       /\ Len(Warnings) = 1
       /\ result # Panic
       /\ pc = "state_machine_call_with_proof" \/ calls # <<>>

C3_Witness ==
  Mismatch /\ no_spec_check_panic /\ calls # <<>> /\ expected[3] # 0

\* C4: over a Snapshot source neither identity query is made, the run does
\* not fail in the skipped check, and the stage after a successful build is
\* the entry-point call.
C4_SnapshotSkipsCheck ==
  state = "Snapshot" =>
    /\ "local_spec" \notin Range(started)
    /\ "ensure_matching_spec" \notin Range(started)
    /\ expected = None /\ actual = None
    /\ result # Panic
    /\ "build" \in Range(completed) =>
         /\ pc = "state_machine_call_with_proof" \/ calls # <<>>
         /\ Len(started) >= 4 => started[4] = "state_machine_call_with_proof"

C4_Witness ==
  state = "Snapshot" /\ "build" \in Range(completed) /\ calls # <<>>

\* The decode step has run.
Decoded == "decode" \in Range(started)

\* C5: the decode succeeds only for a return value that is exactly two
\* records long; with bytes missing or with bytes behind the second record the
\* run fails with the decode error and writes no report.
C5_ExactlyTwoRecords ==
  Decoded =>
    /\ weights # None <=> Len(encoded_result) = 4 * U64Bytes
    /\ Len(encoded_result) # 4 * U64Bytes =>
         /\ result.tag = "Err"
         /\ first_error.stage = "decode"
         /\ Reports = <<>>

\* C6: in the externalities built, the injected code key holds the code of
\* the chain spec whatever the fetched state held there, every other key
\* holds what the fetched state held, and the identity query and the entry
\* point are given these externalities.
C6_OverlayMerge ==
  ext # None =>
    /\ code_pair = <<CODE, chain_spec>>
    /\ ext[CODE] = chain_spec
    /\ \A k \in Keys \ {CODE} : ext[k] = base[k]
    /\ expected # None => expected = RuntimeVersionOf(chain_spec)
    /\ \A i \in DOMAIN calls : calls[i].ext = ext

C6_Witness ==
  /\ ext # None
  /\ base[CODE] \notin {NoValue, chain_spec}
  /\ base[OtherKey] # NoValue
  /\ expected # None
  /\ calls # <<>>

\* C7: the entry point is called at most once and no stage is started twice:
\* after a failure the failed stage is the last stage started.
C7_NoRetry ==
  /\ Len(calls) <= 1
  /\ \A i, j \in DOMAIN started : started[i] = started[j] => i = j
  /\ first_error # NoError =>
       /\ started[Len(started)] = first_error.stage
       /\ ~pending
       /\ pc = "done"

C7_Witness ==
  /\ first_error.stage = "state_machine_call_with_proof"
  /\ Len(calls) = 1
  /\ pc = "done"

\* The run is over: success after every stage, with one report written, or
\* failure with none.
TerminalShape ==
  pc = "done" =>
    \/ /\ result = Ok(<<>>)
       /\ first_error = NoError
       /\ completed = (IF state = "Live" THEN LivePipeline ELSE SnapshotPipeline)
       /\ Len(Reports) = 1
    \/ /\ result.tag \in {"Err", "Panic"}
       /\ first_error # NoError
       /\ Reports = <<>>

\* C8: when every collaborator returns, the run terminates, with success and
\* exactly one report after all stages succeeded, or with failure and no
\* report.
C8_Terminates == <>(pc = "done") /\ [](TerminalShape /\ Len(Reports) <= 1)

C8_Witness == pc = "done" /\ result = Ok(<<>>) /\ Len(Reports) = 1

\* C9 as stated: the error a failed run returns is the error the first
\* failing stage produced, unchanged.
C9_ErrorUnchanged ==
  result.tag = "Err" => result.error = first_error.error

\* C9 amended: a run that fails returns at the first failing stage without
\* recovery; the errors of the builder, the code extraction, the build and
\* the call are returned as produced, the decode error is returned inside
\* the message "failed to decode weight: ..", and a failure of the identity
\* stages is a panic that returns no error value.
C9_ErrorPropagation ==
  /\ first_error # NoError <=> result.tag \in {"Err", "Panic"}
  /\ result.tag = "Err" =>
       /\ first_error.stage \in
            {"builder", "extract_code", "build", "state_machine_call_with_proof",
             "decode"}
       /\ result.error =
            IF first_error.stage = "decode"
              THEN <<"failed to decode weight: ">> \o first_error.error
              ELSE first_error.error
  /\ result = Panic => first_error.stage \in {"local_spec", "ensure_matching_spec"}
  /\ first_error.stage = "decode" => result.tag = "Err"

C9_Witness ==
  /\ result.tag = "Err"
  /\ first_error.stage = "decode"
  /\ result.error # first_error.error

\* C10: each ratio reported is consumed / max(total, 1) * 100 to two
\* decimals (held in hundredths of a percent): a total of 0 divides by 1,
\* and consumed (100, 50) of total (1000, 1000) is 10.00 % and 5.00 %.
C10_Ratios ==
  \A i \in DOMAIN Reports :
    LET r == Reports[i] IN
    /\ r.weight = <<weights[1].ref_time, weights[1].proof_size>>
    /\ r.total_weight = <<weights[2].ref_time, weights[2].proof_size>>
    /\ \A d \in 1..2 :
         LET c == r.weight[d]
             t == r.total_weight[d]
             den == IF t = 0 THEN 1 ELSE t
             diff == r.percent[d] * den - c * 10000
         IN /\ 2 * diff <= den /\ -2 * diff <= den
            /\ t = 0 => r.percent[d] = c * 10000
    /\ (r.weight = <<100, 50>> /\ r.total_weight = <<1000, 1000>>) =>
         r.percent = <<1000, 500>>

C10_Witness ==
  /\ Reports # <<>>
  /\ Reports[1].weight = <<100, 50>>
  /\ Reports[1].total_weight = <<0, 0>>
  /\ Reports[1].percent = <<1000000, 500000>>

\* ------------------------------------------- the nfts pallet: lock features
\* At most MaxCalls calls are made in one behaviour.
MaxCalls == 2

Accounts == {"alice", "bob"}
CollectionIds == {"c1", "c2"}
ItemIds == {"i1", "i2"}

\* CollectionSetting and ItemSetting.
CollectionSettings ==
  {"TransferableItems", "UnlockedMetadata", "UnlockedAttributes",
   "UnlockedMaxSupply", "DepositRequired"}
ItemSettings == {"Transferable", "UnlockedMetadata", "UnlockedAttributes"}

\* A config holds the set of its disabled settings.
CollectionConfig(disabled, max_supply) ==
  [settings |-> disabled, max_supply |-> max_supply]
ItemConfig(disabled) == [settings |-> disabled]

has_disabled_setting(cfg, setting) == setting \in cfg.settings
disable_setting(cfg, setting) == [cfg EXCEPT !.settings = @ \cup {setting}]
enable_setting(cfg, setting) == [cfg EXCEPT !.settings = @ \ {setting}]

\* Pallet::has_role: the account holds the role in the collection.
has_role(collection, who, role) ==
  /\ <<collection, who>> \in DOMAIN CollectionRoleOf
  /\ role \in CollectionRoleOf[<<collection, who>>]

\* StorageMap::insert / StorageDoubleMap::insert
Insert(map, key, value) ==
  [k \in DOMAIN map \cup {key} |-> IF k = key THEN value ELSE map[k]]

\* An item config handed out for an item that has none.
get_item_config_Default(collection_id, item_id) ==
  IF <<collection_id, item_id>> \in DOMAIN ItemConfigOf
    THEN Ok(ItemConfigOf[<<collection_id, item_id>>])
    ELSE Ok(ItemConfig({}))

\* Pallet::get_item_config
get_item_config(collection_id, item_id) ==
  IF <<collection_id, item_id>> \in DOMAIN ItemConfigOf
    THEN Ok(ItemConfigOf[<<collection_id, item_id>>])
    ELSE Err("UnknownItem")

\* The role check left out.
EnsureFreezer_Skipped(collection, origin) == TRUE

\* ensure!(Self::has_role(&collection, &origin, CollectionRole::Freezer), ..)
EnsureFreezer(collection, origin) == has_role(collection, origin, "Freezer")

\* What a call that consulted has_role leaves in its record.
RoleCheck(collection, origin, passed) ==
  <<[collection |-> collection, who |-> origin, role |-> "Freezer",
     passed |-> passed]>>

\* The storage and the events as a call finds them.
Snapshot ==
  [collections |-> CollectionConfigOf, items |-> ItemConfigOf, events |-> Len(events)]

\* The record of a call.
CallRecord(op, origin, collection, item, arg, checks, res) ==
  [op |-> op, origin |-> origin, collection |-> collection, item |-> item,
   arg |-> arg, checks |-> checks, result |-> res, before |-> Snapshot]

\* A call returns Err: nothing is written.
Fails(record) ==
  /\ last' = record
  /\ UNCHANGED <<Collection, CollectionConfigOf, ItemConfigOf, CollectionRoleOf,
                 events>>

\* Every setting of lock_config copied into the config.
LockCollectionConfig_All(cfg, lock_config) ==
  [cfg EXCEPT !.settings = @ \cup lock_config.settings]

\* The three conditional disable_setting calls of do_lock_collection.
LockCollectionConfig(cfg, lock_config) ==
  LET a == IF has_disabled_setting(lock_config, "TransferableItems")
             THEN disable_setting(cfg, "TransferableItems") ELSE cfg
      b == IF has_disabled_setting(lock_config, "UnlockedMetadata")
             THEN disable_setting(a, "UnlockedMetadata") ELSE a
  IN IF has_disabled_setting(lock_config, "UnlockedAttributes")
       THEN disable_setting(b, "UnlockedAttributes") ELSE b

do_lock_collection(origin, collection, lock_config) ==
  LET passed == EnsureFreezer(collection, origin)
      call(res) == CallRecord("do_lock_collection", origin, collection, "-",
                              lock_config, RoleCheck(collection, origin, passed), res)
  IN IF ~passed THEN Fails(call("NoPermission"))
     ELSE IF collection \notin DOMAIN CollectionConfigOf THEN Fails(call("NoConfig"))
     ELSE /\ CollectionConfigOf' =
               [CollectionConfigOf EXCEPT
                  ![collection] = LockCollectionConfig(@, lock_config)]
          /\ events' = Append(events, [event |-> "CollectionLocked",
                                       collection |-> collection, item |-> "-"])
          /\ last' = call("Ok")
          /\ UNCHANGED <<Collection, ItemConfigOf, CollectionRoleOf>>

\* The transfer setting flipped.
LockItemTransfer_Toggle(cfg) ==
  IF ~has_disabled_setting(cfg, "Transferable")
    THEN disable_setting(cfg, "Transferable")
    ELSE enable_setting(cfg, "Transferable")

\* if !config.has_disabled_setting(Transferable) { config.disable_setting(..) }
LockItemTransfer(cfg) ==
  IF ~has_disabled_setting(cfg, "Transferable")
    THEN disable_setting(cfg, "Transferable")
    ELSE cfg

\* if config.has_disabled_setting(Transferable) { config.enable_setting(..) }
UnlockItemTransfer(cfg) ==
  IF has_disabled_setting(cfg, "Transferable")
    THEN enable_setting(cfg, "Transferable")
    ELSE cfg

do_lock_item_transfer(origin, collection, item) ==
  LET passed == EnsureFreezer(collection, origin)
      call(res) == CallRecord("do_lock_item_transfer", origin, collection, item,
                              <<>>, RoleCheck(collection, origin, passed), res)
      got == get_item_config(collection, item)
  IN IF ~passed THEN Fails(call("NoPermission"))
     ELSE IF got.tag = "Err" THEN Fails(call(got.error))
     ELSE /\ ItemConfigOf' =
               Insert(ItemConfigOf, <<collection, item>>, LockItemTransfer(got.value))
          /\ events' = Append(events, [event |-> "ItemTransferLocked",
                                       collection |-> collection, item |-> item])
          /\ last' = call("Ok")
          /\ UNCHANGED <<Collection, CollectionConfigOf, CollectionRoleOf>>

do_unlock_item_transfer(origin, collection, item) ==
  LET passed == EnsureFreezer(collection, origin)
      call(res) == CallRecord("do_unlock_item_transfer", origin, collection, item,
                              <<>>, RoleCheck(collection, origin, passed), res)
      got == get_item_config(collection, item)
  IN IF ~passed THEN Fails(call("NoPermission"))
     ELSE IF got.tag = "Err" THEN Fails(call(got.error))
     ELSE /\ ItemConfigOf' =
               Insert(ItemConfigOf, <<collection, item>>, UnlockItemTransfer(got.value))
          /\ events' = Append(events, [event |-> "ItemTransferUnlocked",
                                       collection |-> collection, item |-> item])
          /\ last' = call("Ok")
          /\ UNCHANGED <<Collection, CollectionConfigOf, CollectionRoleOf>>

\* No check-owner: the call comes from the force origin.
NoOwnerCheck == "None"

\* The owner check passed whoever the owner is.
CheckOwner_Skipped(maybe_check_owner, owner) == TRUE

\* if let Some(check_owner) = &maybe_check_owner { ensure!(check_owner == owner) }
CheckOwner(maybe_check_owner, owner) ==
  maybe_check_owner # NoOwnerCheck => maybe_check_owner = owner

\* A flag that is not set re-enables the setting.
LockItemProperties_Assign(cfg, lock_metadata, lock_attributes) ==
  LET a == IF lock_metadata THEN disable_setting(cfg, "UnlockedMetadata")
           ELSE enable_setting(cfg, "UnlockedMetadata")
  IN IF lock_attributes THEN disable_setting(a, "UnlockedAttributes")
     ELSE enable_setting(a, "UnlockedAttributes")

\* The two conditional disable_setting calls of do_lock_item_properties.
LockItemProperties(cfg, lock_metadata, lock_attributes) ==
  LET a == IF lock_metadata THEN disable_setting(cfg, "UnlockedMetadata") ELSE cfg
  IN IF lock_attributes THEN disable_setting(a, "UnlockedAttributes") ELSE a

do_lock_item_properties(maybe_check_owner, collection, item, lock_metadata, lock_attributes) ==
  LET call(res) == CallRecord("do_lock_item_properties", maybe_check_owner,
                              collection, item, <<lock_metadata, lock_attributes>>,
                              <<>>, res)
  IN IF collection \notin DOMAIN Collection THEN Fails(call("UnknownCollection"))
     ELSE IF ~CheckOwner(maybe_check_owner, Collection[collection].owner)
       THEN Fails(call("NoPermission"))
     ELSE IF <<collection, item>> \notin DOMAIN ItemConfigOf
       THEN Fails(call("UnknownItem"))
     ELSE /\ ItemConfigOf' =
               [ItemConfigOf EXCEPT
                  ![<<collection, item>>] =
                     LockItemProperties(@, lock_metadata, lock_attributes)]
          /\ events' = Append(events, [event |-> "ItemPropertiesLocked",
                                       collection |-> collection, item |-> item,
                                       lock_metadata |-> lock_metadata,
                                       lock_attributes |-> lock_attributes])
          /\ last' = call("Ok")
          /\ UNCHANGED <<Collection, CollectionConfigOf, CollectionRoleOf>>

\* ----------------------------------------------------- calls on the pallet
\* The lock configs a caller passes to do_lock_collection.
LockConfigs ==
  {CollectionConfig({}, 0),
   CollectionConfig({"TransferableItems", "UnlockedMaxSupply"}, 7),
   CollectionConfig({"UnlockedMetadata", "UnlockedAttributes", "DepositRequired"}, 0)}

\* The (collection, item) pairs calls are made on.
Targets == {<<"c1", "i1">>, <<"c1", "i2">>, <<"c2", "i1">>}

\* The run of on_runtime_upgrade as it is while the pallet is looked at.
RunIdle ==
  /\ state = "Snapshot"
  /\ no_spec_check_panic = FALSE
  /\ chain_spec = NoValue
  /\ pc = "builder"
  /\ pending = FALSE
  /\ code_pair = None
  /\ base = None
  /\ ext = None
  /\ expected = None
  /\ actual = None
  /\ encoded_result = None
  /\ weights = None
  /\ log = <<>>
  /\ result = Running
  /\ started = <<>>
  /\ completed = <<>>
  /\ first_error = NoError
  /\ calls = <<>>

\* Collection c1 of alice, frozen by bob, with two items; collection c2 may
\* not exist, or exist without a config, or exist with one; it has no items
\* and alice is its freezer.
LockInit ==
  /\ RunIdle
  /\ \E c2 \in {"absent", "no config", "config"} :
       /\ Collection =
            IF c2 = "absent"
              THEN [c \in {"c1"} |-> [owner |-> "alice"]]
              ELSE [c \in {"c1", "c2"} |->
                      [owner |-> IF c = "c1" THEN "alice" ELSE "bob"]]
       /\ CollectionConfigOf =
            IF c2 = "config"
              THEN [c \in {"c1", "c2"} |->
                      IF c = "c1" THEN CollectionConfig({"DepositRequired"}, 5)
                      ELSE CollectionConfig({"UnlockedMetadata"}, 0)]
              ELSE [c \in {"c1"} |-> CollectionConfig({"DepositRequired"}, 5)]
  /\ ItemConfigOf =
       [t \in {<<"c1", "i1">>, <<"c1", "i2">>} |->
          IF t[2] = "i1" THEN ItemConfig({}) ELSE ItemConfig({"UnlockedMetadata"})]
  /\ CollectionRoleOf =
       [k \in {<<"c1", "alice">>, <<"c1", "bob">>, <<"c2", "alice">>} |->
          IF k = <<"c1", "alice">> THEN {"Admin", "Issuer"} ELSE {"Freezer"}]
  /\ events = <<>>
  /\ last = NoCall
  /\ dispatched = 0

\* One more call is made.
Dispatch ==
  /\ dispatched < MaxCalls
  /\ dispatched' = dispatched + 1
  /\ UNCHANGED run

LockCollection ==
  /\ Dispatch
  /\ \E origin \in Accounts, collection \in CollectionIds, lock_config \in LockConfigs :
       do_lock_collection(origin, collection, lock_config)

LockItemTransferCall ==
  /\ Dispatch
  /\ \E origin \in Accounts, t \in Targets : do_lock_item_transfer(origin, t[1], t[2])

UnlockItemTransferCall ==
  /\ Dispatch
  /\ \E origin \in Accounts, t \in Targets : do_unlock_item_transfer(origin, t[1], t[2])

LockItemPropertiesCall ==
  /\ Dispatch
  /\ \E maybe_check_owner \in Accounts \cup {NoOwnerCheck}, t \in Targets,
        lock_metadata \in BOOLEAN, lock_attributes \in BOOLEAN :
       do_lock_item_properties(maybe_check_owner, t[1], t[2], lock_metadata,
                               lock_attributes)

LockNext ==
  \/ LockCollection
  \/ LockItemTransferCall
  \/ UnlockItemTransferCall
  \/ LockItemPropertiesCall

LockSpec == LockInit /\ [][LockNext]_vars

\* ------------------------------------------------- properties of the locks
\* A call has been made.
Called == last.op # "None"

\* The operations that ask for the Freezer role.
FreezerOps == {"do_lock_collection", "do_lock_item_transfer", "do_unlock_item_transfer"}

\* The last call changed a stored collection or item config.
ConfigChanged ==
  Called /\ (CollectionConfigOf # last.before.collections
             \/ ItemConfigOf # last.before.items)

\* The last call consulted has_role for its caller on its collection, for the
\* Freezer role, and the caller holds it.
RoleCheckPassed ==
  /\ last.checks # <<>>
  /\ \A i \in DOMAIN last.checks :
       /\ last.checks[i].collection = last.collection
       /\ last.checks[i].who = last.origin
       /\ last.checks[i].role = "Freezer"
       /\ last.checks[i].passed
  /\ has_role(last.collection, last.origin, "Freezer")

\* C11 as stated: whichever of the four operations changed a stored config,
\* has_role was consulted for the caller on that collection and passed.
C11_RoleGuardsEveryLock == ConfigChanged => RoleCheckPassed

\* C11 amended: do_lock_collection, do_lock_item_transfer and
\* do_unlock_item_transfer change a stored config only after has_role passed
\* for the caller; do_lock_item_properties consults no role: it changes a
\* config when no check-owner is given or the check-owner is the owner of the
\* collection.
C11_GuardedLocks ==
  ConfigChanged =>
    IF last.op \in FreezerOps THEN RoleCheckPassed
    ELSE /\ last.op = "do_lock_item_properties"
         /\ last.checks = <<>>
         /\ \/ last.origin = NoOwnerCheck
            \/ last.origin = Collection[last.collection].owner

C11_Witness ==
  ConfigChanged /\ last.op = "do_lock_item_transfer" /\ last.origin = "bob"

\* C12: the identity comparison runs only after the local query has returned
\* and the live endpoint has answered, its outcome is fixed by these two
\* answers and the flag, and while a query or the entry-point call is
\* outstanding it is the only stage that has started and not completed.
C12_CheckAfterQueries ==
  /\ "ensure_matching_spec" \in Range(started) =>
       /\ "local_spec" \in Range(completed)
       /\ expected = local_spec(ext)
  /\ "ensure_matching_spec" \in Range(completed) =>
       /\ actual \in LiveVersions
       /\ <<expected[1], expected[2]>> = actual \/ no_spec_check_panic
       /\ Len(Warnings) = IF <<expected[1], expected[2]>> = actual THEN 0 ELSE 1
  /\ first_error.stage = "ensure_matching_spec" =>
       \/ actual = QueryFailed
       \/ actual \in LiveVersions /\ <<expected[1], expected[2]>> # actual
            /\ ~no_spec_check_panic
  /\ first_error.stage = "local_spec" =>
       actual = None /\ "ensure_matching_spec" \notin Range(started)
  /\ pending =>
       /\ pc \in {"build", "local_spec", "ensure_matching_spec",
                  "state_machine_call_with_proof"}
       /\ started = Append(completed, pc)
       /\ result = Running

C12_Witness ==
  /\ pending /\ pc = "state_machine_call_with_proof"
  /\ "ensure_matching_spec" \in Range(completed)
  /\ <<expected[1], expected[2]>> # actual

\* The settings do_lock_collection can lock.
LockableSettings == {"TransferableItems", "UnlockedMetadata", "UnlockedAttributes"}

\* C13: do_lock_collection by a Freezer on a collection with a stored config
\* succeeds; of the three lockable settings those are disabled that were
\* disabled before or are disabled in lock_config; every other setting and
\* field keeps its value; no other collection config and no item config
\* changes.
C13_LockCollection ==
  (/\ Called
   /\ last.op = "do_lock_collection"
   /\ has_role(last.collection, last.origin, "Freezer")
   /\ last.collection \in DOMAIN last.before.collections) =>
    LET old == last.before.collections[last.collection]
        new == CollectionConfigOf[last.collection]
    IN /\ last.result = "Ok"
       /\ \A st \in LockableSettings :
            st \in new.settings <=> (st \in old.settings \/ st \in last.arg.settings)
       /\ \A st \in CollectionSettings \ LockableSettings :
            st \in new.settings <=> st \in old.settings
       /\ new.max_supply = old.max_supply
       /\ DOMAIN CollectionConfigOf = DOMAIN last.before.collections
       /\ \A c \in DOMAIN CollectionConfigOf \ {last.collection} :
            CollectionConfigOf[c] = last.before.collections[c]
       /\ ItemConfigOf = last.before.items

C13_Witness ==
  /\ Called
  /\ last.op = "do_lock_collection"
  /\ last.result = "Ok"
  /\ "UnlockedMaxSupply" \in last.arg.settings
  /\ "TransferableItems" \in CollectionConfigOf[last.collection].settings
  /\ DOMAIN CollectionConfigOf = {"c1", "c2"}

\* One step keeps every lock but an item's transfer lock, which only a
\* successful do_unlock_item_transfer on that item takes away.
Irreversible ==
  /\ \A c \in DOMAIN CollectionConfigOf :
       /\ c \in DOMAIN CollectionConfigOf'
       /\ CollectionConfigOf[c].settings \subseteq CollectionConfigOf'[c].settings
  /\ \A k \in DOMAIN ItemConfigOf :
       /\ k \in DOMAIN ItemConfigOf'
       /\ (ItemConfigOf[k].settings \ {"Transferable"})
            \subseteq ItemConfigOf'[k].settings
       /\ ("Transferable" \in ItemConfigOf[k].settings
           /\ "Transferable" \notin ItemConfigOf'[k].settings) =>
            /\ last'.op = "do_unlock_item_transfer"
            /\ last'.result = "Ok"
            /\ <<last'.collection, last'.item>> = k

\* C14: over any sequence of lock calls a disabled collection setting and a
\* disabled UnlockedMetadata or UnlockedAttributes item setting stay disabled;
\* only an item's Transferable setting is ever re-enabled, and only by
\* do_unlock_item_transfer.
C14_LocksIrreversible == [][Irreversible]_vars

C14_Witness ==
  /\ Called
  /\ last.op = "do_unlock_item_transfer"
  /\ last.result = "Ok"
  /\ "Transferable" \in last.before.items[<<last.collection, last.item>>].settings
  /\ "Transferable" \notin ItemConfigOf[<<last.collection, last.item>>].settings
  /\ "UnlockedMetadata" \in ItemConfigOf[<<last.collection, last.item>>].settings

\* The target of the last call, as a key of ItemConfigOf.
LastItem == <<last.collection, last.item>>

\* The last call left the stored configs and the events as it found them.
NothingWritten ==
  /\ CollectionConfigOf = last.before.collections
  /\ ItemConfigOf = last.before.items
  /\ Len(events) = last.before.events

\* C15: a failing call writes no config and deposits no event, and it fails
\* with NoPermission for a caller without the Freezer role (the three Freezer
\* operations) or a check-owner who is not the owner
\* (do_lock_item_properties), NoConfig for a collection without a config
\* (do_lock_collection), UnknownItem for an item without a config,
\* UnknownCollection for a collection that does not exist
\* (do_lock_item_properties).
C15_FailuresWriteNothing ==
  Called =>
    LET freezer == has_role(last.collection, last.origin, "Freezer")
        exists == last.collection \in DOMAIN Collection
        owner_ok == last.origin = NoOwnerCheck
                      \/ last.origin = Collection[last.collection].owner
        has_config == last.collection \in DOMAIN last.before.collections
        has_item == LastItem \in DOMAIN last.before.items
    IN /\ last.result # "Ok" => NothingWritten
       /\ last.op = "do_lock_collection" =>
            /\ last.result \in {"Ok", "NoPermission", "NoConfig"}
            /\ last.result = "NoPermission" <=> ~freezer
            /\ last.result = "NoConfig" <=> (freezer /\ ~has_config)
       /\ last.op \in {"do_lock_item_transfer", "do_unlock_item_transfer"} =>
            /\ last.result \in {"Ok", "NoPermission", "UnknownItem"}
            /\ last.result = "NoPermission" <=> ~freezer
            /\ last.result = "UnknownItem" <=> (freezer /\ ~has_item)
       /\ last.op = "do_lock_item_properties" =>
            /\ last.result \in {"Ok", "UnknownCollection", "NoPermission", "UnknownItem"}
            /\ last.result = "UnknownCollection" <=> ~exists
            /\ last.result = "NoPermission" <=> (exists /\ ~owner_ok)
            /\ last.result = "UnknownItem" <=> (exists /\ owner_ok /\ ~has_item)

C15_Witness ==
  /\ Called
  /\ last.op = "do_lock_item_properties"
  /\ last.result = "NoPermission"
  /\ events # <<>>
  /\ LastItem \in DOMAIN ItemConfigOf

\* After a successful lock or unlock of an item's transfer: the setting has
\* the value the operation gives it, the item's other settings, the other
\* items and the collections are as before, and one event was deposited.
TransferSet(op, event, disabled) ==
  (Called /\ last.op = op /\ has_role(last.collection, last.origin, "Freezer")
     /\ LastItem \in DOMAIN last.before.items) =>
    LET old == last.before.items[LastItem]
        new == ItemConfigOf[LastItem]
    IN /\ last.result = "Ok"
       /\ "Transferable" \in new.settings <=> disabled
       /\ new.settings \ {"Transferable"} = old.settings \ {"Transferable"}
       /\ ("Transferable" \in old.settings <=> disabled) =>
            ItemConfigOf = last.before.items
       /\ DOMAIN ItemConfigOf = DOMAIN last.before.items
       /\ \A k \in DOMAIN ItemConfigOf \ {LastItem} :
            ItemConfigOf[k] = last.before.items[k]
       /\ CollectionConfigOf = last.before.collections
       /\ Len(events) = last.before.events + 1
       /\ events[Len(events)] =
            [event |-> event, collection |-> last.collection, item |-> last.item]

\* A successful unlock right after a successful lock of the same item, which
\* was transferable, leaves the item's config as it was before the lock.
LockThenUnlock ==
  (/\ last.op = "do_lock_item_transfer" /\ last.result = "Ok"
   /\ last'.op = "do_unlock_item_transfer" /\ last'.result = "Ok"
   /\ <<last'.collection, last'.item>> = LastItem
   /\ "Transferable" \notin last.before.items[LastItem].settings) =>
    ItemConfigOf'[LastItem] = last.before.items[LastItem]

\* C16: for an existing item and a Freezer caller do_lock_item_transfer
\* disables and do_unlock_item_transfer enables the Transferable setting
\* whatever it was; a repeated call succeeds, changes nothing and deposits
\* its event again; lock then unlock restores a transferable item's config;
\* nothing else changes.
C16_TransferLock ==
  /\ [](TransferSet("do_lock_item_transfer", "ItemTransferLocked", TRUE)
        /\ TransferSet("do_unlock_item_transfer", "ItemTransferUnlocked", FALSE))
  /\ [][LockThenUnlock]_vars

C16_Witness ==
  /\ Called
  /\ last.op = "do_lock_item_transfer"
  /\ last.result = "Ok"
  /\ "Transferable" \in last.before.items[LastItem].settings
  /\ Len(events) = 2
  /\ events[1] = events[2]

\* C17: no lock call, succeeding or failing, adds or removes a collection
\* config or an item config.
C17_NoEntryCreated ==
  [][/\ DOMAIN CollectionConfigOf' = DOMAIN CollectionConfigOf
     /\ DOMAIN ItemConfigOf' = DOMAIN ItemConfigOf]_vars

C17_Witness ==
  /\ Called
  /\ last.op \in {"do_lock_item_transfer", "do_unlock_item_transfer"}
  /\ has_role(last.collection, last.origin, "Freezer")
  /\ last.result = "UnknownItem"
  /\ LastItem \notin DOMAIN ItemConfigOf

\* C18: the state build is started only after the builder was made and the
\* code pair was taken from the chain spec; a run that fails in one of these
\* two steps fetches no state, makes no identity query and never calls the
\* entry point.
C18_FetchAfterExtract ==
  /\ "build" \in Range(started) =>
       /\ SubSeq(completed, 1, 2) = <<"builder", "extract_code">>
       /\ chain_spec # NoValue
       /\ code_pair = <<CODE, chain_spec>>
  /\ ("extract_code" \in Range(started) /\ chain_spec = NoValue) =>
       first_error.stage = "extract_code"
  /\ first_error.stage \in {"builder", "extract_code"} =>
       /\ result.tag = "Err"
       /\ Range(started) \subseteq {"builder", "extract_code"}
       /\ base = None /\ ext = None
       /\ expected = None /\ actual = None
       /\ calls = <<>>

C18_Witness ==
  /\ first_error.stage = "extract_code"
  /\ completed = <<"builder">>
  /\ pc = "done"

====
